---- MODULE Spec2Model ----
(***************************************************************************)
(* Verification model of the Dsa glue classes:                             *)
(*   - DataItemListModel and its DataItem classifier                       *)
(*   - AlertSource (destruction-time noLongerValid notification)           *)
(*   - ViewedAlertsController (count of active, unviewed alerts)           *)
(* A QString is a sequence of one-character strings, so that separators,   *)
(* dots and letter case are all visible to the model.                      *)
(***************************************************************************)
EXTENDS Integers, Sequences, FiniteSets, TLC

VARIABLES
  \* ---- DataItem classifier (one construction) ----
  inPath,          \* the fullPath handed to the DataItem constructor
  item,            \* <<the constructed DataItem>>, or <<>> before construction
  \* ---- DataItemListModel ----
  m_dataItems,     \* QList<DataItem>
  m_roles,         \* QHash<int, QByteArray>
  added,           \* paths passed to addDataItem since the model was last empty
  dataOp,          \* the last operation called on the list model
  prevOp,          \* the operation called before it
  cleared,         \* clear() has been called at least once
  qIndex,          \* the index argument of the last accessor call
  qRole,           \* the role argument of the last data() call
  result,          \* what the last accessor call returned
  crashed,         \* the process was aborted by a failed Qt assertion
  \* ---- AlertSource ----
  srcState,        \* per source: "unborn", "alive" or "destroyed"
  emitCount,       \* per source: number of noLongerValid emissions so far
  connectedDeps,   \* per source: dependents connected to noLongerValid
  delivered,       \* per source: dependents whose slot ran on noLongerValid
  validAtEmit,     \* per source: was every emission made on a live QObject
  \* ---- ViewedAlertsController / AlertListModel ----
  modelPresent,    \* AlertListModel::instance() is non-null
  alerts,          \* the alert list: AlertConditionData records or NullAlert
  ctrlConstructed, \* a ViewedAlertsController has been constructed
  connections,     \* AlertListModel signals wired to unviewedCountChanged
  emitted,         \* the signals emitted by the last operation, in order
  alertsOp,        \* the last operation on the alert list or the controller
  count            \* the value returned by the last unviewedCount() call

classifyVars == <<inPath, item>>
dataVars == <<m_dataItems, m_roles, added, dataOp, prevOp, cleared, qIndex, qRole, result, crashed>>
sourceVars == <<srcState, emitCount, connectedDeps, delivered, validAtEmit>>
alertVars == <<modelPresent, alerts, ctrlConstructed, connections, emitted, alertsOp, count>>
vars == <<classifyVars, dataVars, sourceVars, alertVars>>

None == "None"

-----------------------------------------------------------------------------
(* QString helpers                                                          *)

LowerChars == <<"a", "b", "c", "d", "e", "f", "g", "h", "i", "j", "k", "l", "m", "n", "o", "p", "q", "r", "s", "t", "u", "v", "w", "x", "y", "z">>
UpperChars == <<"A", "B", "C", "D", "E", "F", "G", "H", "I", "J", "K", "L", "M", "N", "O", "P", "Q", "R", "S", "T", "U", "V", "W", "X", "Y", "Z">>

\* QChar::toLower on one character
toLowerChar(c) ==
  IF \E i \in 1..Len(UpperChars) : UpperChars[i] = c
    THEN LowerChars[CHOOSE i \in 1..Len(UpperChars) : UpperChars[i] = c]
    ELSE c

\* QString::toLower
toLower(s) == [i \in 1..Len(s) |-> toLowerChar(s[i])]

\* QString::compare(other, cs) == 0
compareEq(s, other, caseSensitive) ==
  IF caseSensitive THEN s = other ELSE toLower(s) = toLower(other)

\* QString::mid(from): the characters after the first `from` ones
mid(s, from) == SubSeq(s, from + 1, Len(s))

\* position (1-based) of the last "/" of a path, 0 when there is none
lastSeparator(path) ==
  IF \E i \in 1..Len(path) : path[i] = "/"
    THEN CHOOSE i \in 1..Len(path) :
           path[i] = "/" /\ \A j \in (i+1)..Len(path) : path[j] # "/"
    ELSE 0

\* position (1-based) of the first "." of a name, 0 when there is none
firstDot(name) ==
  IF \E i \in 1..Len(name) : name[i] = "."
    THEN CHOOSE i \in 1..Len(name) :
           name[i] = "." /\ \A j \in 1..(i-1) : name[j] # "."
    ELSE 0

\* QFileInfo::fileName(): the path without its directory part
fileNameOf(path) == mid(path, lastSeparator(path))

\* QFileInfo::completeSuffix(): everything after the FIRST dot of the file name
completeSuffix(path) ==
  LET name == fileNameOf(path)
  IN IF firstDot(name) = 0 THEN <<>> ELSE mid(name, firstDot(name))

\* QStringList::contains
contains(list, s) == \E i \in 1..Len(list) : list[i] = s

-----------------------------------------------------------------------------
(* DataItemListModel::DataItem                                              *)

Ext_geodatabase == <<"g", "e", "o", "d", "a", "t", "a", "b", "a", "s", "e">>
Ext_tpk == <<"t", "p", "k">>
Ext_shp == <<"s", "h", "p">>
Ext_gpkg == <<"g", "p", "k", "g">>
Ext_slpk == <<"s", "l", "p", "k">>
Ext_vtpk == <<"v", "t", "p", "k">>
Ext_markup == <<"m", "a", "r", "k", "u", "p">>
Ext_kml == <<"k", "m", "l">>
Ext_kmz == <<"k", "m", "z">>

rasterExtensions ==
  << <<"i", "m", "g">>,
     <<"t", "i", "f">>,
     <<"t", "i", "f", "f">>,
     <<"i", "1">>,
     <<"d", "t", "0">>,
     <<"d", "t", "1">>,
     <<"d", "t", "2">>,
     <<"t", "c", "2">>,
     <<"g", "e", "o", "t", "i", "f", "f">>,
     <<"h", "r", "1">>,
     <<"j", "p", "g">>,
     <<"j", "p", "e", "g">>,
     <<"j", "p", "2">>,
     <<"n", "t", "f">>,
     <<"p", "n", "g">>,
     <<"i", "2", "1">>,
     <<"s", "i", "d">> >>

DataTypes ==
  {"Geodatabase", "TilePackage", "Shapefile", "GeoPackage", "SceneLayerPackage",
   "VectorTilePackage", "Markup", "Kml", "Raster", "Unknown"}

\* faulty variant of the chain: the shapefile comparison is case-sensitive
classifyShpCaseSensitive(fileExtension) ==
  IF fileExtension = Ext_geodatabase THEN "Geodatabase"
  ELSE IF compareEq(fileExtension, Ext_tpk, FALSE) THEN "TilePackage"
  ELSE IF compareEq(fileExtension, Ext_shp, TRUE) THEN "Shapefile"
  ELSE IF compareEq(fileExtension, Ext_gpkg, FALSE) THEN "GeoPackage"
  ELSE IF compareEq(fileExtension, Ext_slpk, FALSE) THEN "SceneLayerPackage"
  ELSE IF compareEq(fileExtension, Ext_vtpk, FALSE) THEN "VectorTilePackage"
  ELSE IF compareEq(fileExtension, Ext_markup, FALSE) THEN "Markup"
  ELSE IF compareEq(fileExtension, Ext_kml, FALSE) \/ compareEq(fileExtension, Ext_kmz, FALSE)
    THEN "Kml"
  ELSE IF contains(rasterExtensions, toLower(fileExtension)) THEN "Raster"
  ELSE "Unknown"

\* the if / else-if chain of the DataItem constructor
classify(fileExtension) ==
  IF fileExtension = Ext_geodatabase THEN "Geodatabase"
  ELSE IF compareEq(fileExtension, Ext_tpk, FALSE) THEN "TilePackage"
  ELSE IF compareEq(fileExtension, Ext_shp, FALSE) THEN "Shapefile"
  ELSE IF compareEq(fileExtension, Ext_gpkg, FALSE) THEN "GeoPackage"
  ELSE IF compareEq(fileExtension, Ext_slpk, FALSE) THEN "SceneLayerPackage"
  ELSE IF compareEq(fileExtension, Ext_vtpk, FALSE) THEN "VectorTilePackage"
  ELSE IF compareEq(fileExtension, Ext_markup, FALSE) THEN "Markup"
  ELSE IF compareEq(fileExtension, Ext_kml, FALSE) \/ compareEq(fileExtension, Ext_kmz, FALSE)
    THEN "Kml"
  ELSE IF contains(rasterExtensions, toLower(fileExtension)) THEN "Raster"
  ELSE "Unknown"

\* DataItem::DataItem(const QString& fullPath)
DataItem(fullPath) ==
  [fullPath |-> fullPath,
   fileName |-> fileNameOf(fullPath),
   dataType |-> classify(completeSuffix(fullPath))]

-----------------------------------------------------------------------------
(* Inputs of the classifier: directory x base name x extension x casing     *)

Ext_xyz == <<"x", "y", "z">>

toUpperChar(c) ==
  IF \E i \in 1..Len(LowerChars) : LowerChars[i] = c
    THEN UpperChars[CHOOSE i \in 1..Len(LowerChars) : LowerChars[i] = c]
    ELSE c

AllUpper(s) == [i \in 1..Len(s) |-> toUpperChar(s[i])]
FirstUpper(s) == [i \in 1..Len(s) |-> IF i = 1 THEN toUpperChar(s[i]) ELSE s[i]]
Casings(s) == {s, AllUpper(s), FirstUpper(s)}

NonRasterExts ==
  {Ext_tpk, Ext_shp, Ext_gpkg, Ext_slpk, Ext_vtpk, Ext_markup, Ext_kml, Ext_kmz}
RasterExtSet == {rasterExtensions[i] : i \in 1..Len(rasterExtensions)}
TableExts == {Ext_geodatabase} \cup NonRasterExts \cup RasterExtSet

InputExts == UNION {Casings(e) : e \in TableExts \cup {Ext_xyz}}
InputDirs == { <<>>, <<"/", "d", ".", "x", "/">> }
InputBases == { <<>>, <<"a">>, <<"a", ".", "b">> }

InputPaths ==
  {d \o b \o <<".">> \o e : d \in InputDirs, b \in InputBases, e \in InputExts}
    \cup {d \o b : d \in InputDirs, b \in InputBases}

-----------------------------------------------------------------------------
(* Specification of one DataItem construction                               *)

ClassifyIdle == inPath = <<>> /\ item = <<>>
DataIdle ==
  /\ m_dataItems = <<>> /\ m_roles = <<>> /\ added = <<>> /\ dataOp = None
  /\ prevOp = None /\ cleared = FALSE
  /\ qIndex = 0 /\ qRole = None /\ result = <<>> /\ crashed = FALSE
SourceIdle ==
  /\ srcState = <<>> /\ emitCount = <<>> /\ connectedDeps = <<>>
  /\ delivered = <<>> /\ validAtEmit = <<>>
AlertsIdle ==
  /\ modelPresent = FALSE /\ alerts = <<>> /\ ctrlConstructed = FALSE
  /\ connections = {} /\ emitted = <<>> /\ alertsOp = None /\ count = 0

InitClassify ==
  /\ inPath \in InputPaths
  /\ item = <<>>
  /\ DataIdle /\ SourceIdle /\ AlertsIdle

ConstructDataItem ==
  /\ item = <<>>
  /\ item' = <<DataItem(inPath)>>
  /\ UNCHANGED <<inPath, dataVars, sourceVars, alertVars>>

NextClassify == ConstructDataItem

SpecClassify == InitClassify /\ [][NextClassify]_vars

-----------------------------------------------------------------------------
(* The fixed extension table, as the documentation states it                *)

\* position (1-based) of the last "." of a name, 0 when there is none
lastDot(name) ==
  IF \E i \in 1..Len(name) : name[i] = "."
    THEN CHOOSE i \in 1..Len(name) :
           name[i] = "." /\ \A j \in (i+1)..Len(name) : name[j] # "."
    ELSE 0

\* the extension of a file name: what follows its last dot
extensionOf(path) ==
  LET name == fileNameOf(path)
  IN IF lastDot(name) = 0 THEN <<>> ELSE mid(name, lastDot(name))

TableTag(e) ==
  CASE e = Ext_geodatabase -> "Geodatabase"
    [] e = Ext_tpk -> "TilePackage"
    [] e = Ext_shp -> "Shapefile"
    [] e = Ext_gpkg -> "GeoPackage"
    [] e = Ext_slpk -> "SceneLayerPackage"
    [] e = Ext_vtpk -> "VectorTilePackage"
    [] e = Ext_markup -> "Markup"
    [] e \in {Ext_kml, Ext_kmz} -> "Kml"
    [] e \in RasterExtSet -> "Raster"
    [] OTHER -> "Unknown"

\* C7: the tag of a constructed DataItem is the table's tag for the extension
\* of its file name (the text after the last dot), for every file name, names
\* with several dots included; an extension outside the table gives Unknown.
C7_ClassificationMatchesTable ==
  item # <<>> =>
    LET e == extensionOf(inPath)
    IN /\ e \in TableExts => item[1].dataType = TableTag(e)
       /\ toLower(e) \notin TableExts => item[1].dataType = "Unknown"

\* C8: every casing of a table extension other than "geodatabase" gets the tag
\* of its lower-case form; of the casings of "geodatabase" only the exact
\* lower-case one gets Geodatabase, every other one gets Unknown.
C8_CaseInsensitiveExceptGeodatabase ==
  item # <<>> =>
    LET s == completeSuffix(inPath)
        tag == item[1].dataType
    IN /\ toLower(s) \in NonRasterExts \cup RasterExtSet => tag = TableTag(toLower(s))
       /\ toLower(s) = Ext_geodatabase =>
            tag = (IF s = Ext_geodatabase THEN "Geodatabase" ELSE "Unknown")

C8_Witness ==
  /\ item # <<>>
  /\ completeSuffix(inPath) = AllUpper(Ext_shp)
  /\ item[1].dataType = "Shapefile"

-----------------------------------------------------------------------------
(* DataItemListModel                                                        *)

MaxItems == 3

FullPathRole == "FullPathRole"
FileNameRole == "FileNameRole"
DisplayRole == "DisplayRole"
QueryRoles == {FullPathRole, FileNameRole, DisplayRole}
QueryIndexes == (0 - 1)..MaxItems

DataPaths ==
  { <<"/", "d", "/", "a", ".", "s", "h", "p">>,
    <<"a", ".", "b", ".", "t", "p", "k">>,
    <<"n">> }

\* what an accessor hands back: a QVariant, a QString, a DataType or an int;
\* "abort" is the process dying on a failed Q_ASSERT
Res(kind, valid, str, dt, n) ==
  [kind |-> kind, valid |-> valid, str |-> str, dt |-> dt, n |-> n]
InvalidQVariant == Res("QVariant", FALSE, <<>>, None, 0)
QVariantOf(str) == Res("QVariant", TRUE, str, None, 0)
QStringOf(str) == Res("QString", TRUE, str, None, 0)
DataTypeOf(dt) == Res("DataType", TRUE, <<>>, dt, 0)
IntOf(n) == Res("int", TRUE, <<>>, None, n)
Void == Res("void", TRUE, <<>>, None, 0)
Abort == Res("abort", FALSE, <<>>, None, 0)

\* what a read through an out-of-range QList::at() may produce
GarbageStrings == { <<>>, <<"?">> }

\* DataItemListModel::setupRoles
setupRoles == [FullPathRole |-> "fullPath", FileNameRole |-> "fileName"]

\* faulty variants of the append in addDataItem
prependItem(items, fullPath) == <<DataItem(fullPath)>> \o items
appendOverwritingFirst(items, fullPath) ==
  IF items = <<>> THEN <<DataItem(fullPath)>>
  ELSE Append([items EXCEPT ![1] = DataItem(fullPath)], DataItem(fullPath))

\* m_dataItems.append(fullPath): the item is built by the DataItem constructor
appendItem(items, fullPath) == Append(items, DataItem(fullPath))

\* faulty variant of the clear: the first entry survives
clearKeepingFirst(items) == IF items = <<>> THEN <<>> ELSE <<items[1]>>

\* m_dataItems.clear()
clearItems(items) == <<>>

\* DataItemListModel::rowCount
rowCount(items) == Len(items)

\* faulty variant of data(): the two roles swapped
dataRolesSwapped(items, row, role) ==
  IF row < 0 \/ row >= Len(items) THEN InvalidQVariant
  ELSE LET dataItem == items[row + 1]
       IN CASE role = FullPathRole -> QVariantOf(dataItem.fileName)
            [] role = FileNameRole -> QVariantOf(dataItem.fullPath)
            [] OTHER -> InvalidQVariant

\* DataItemListModel::data (row is index.row(), 0-based)
data(items, row, role) ==
  IF row < 0 \/ row >= Len(items) THEN InvalidQVariant
  ELSE LET dataItem == items[row + 1]
       IN CASE role = FullPathRole -> QVariantOf(dataItem.fullPath)
            [] role = FileNameRole -> QVariantOf(dataItem.fileName)
            [] OTHER -> InvalidQVariant

\* DataItemListModel::getDataItemType: the possible outcomes. A negative index
\* passes the only guard and reaches QList::at(), which asserts in a debug
\* build and reads outside the list in a release build.
getDataItemType(items, index) ==
  IF index >= Len(items) THEN {DataTypeOf("Unknown")}
  ELSE IF index < 0 THEN {Abort} \cup {DataTypeOf(dt) : dt \in DataTypes}
  ELSE {DataTypeOf(items[index + 1].dataType)}

\* DataItemListModel::getDataItemPath: the possible outcomes, as above
getDataItemPath(items, index) ==
  IF index >= Len(items) THEN {QStringOf(<<>>)}
  ELSE IF index < 0 THEN {Abort} \cup {QStringOf(g) : g \in GarbageStrings}
  ELSE {QStringOf(items[index + 1].fullPath)}

InitData ==
  /\ m_dataItems = <<>>
  /\ m_roles = setupRoles
  /\ added = <<>>
  /\ dataOp = None /\ prevOp = None /\ cleared = FALSE
  /\ qIndex = 0 /\ qRole = None /\ result = Void /\ crashed = FALSE
  /\ ClassifyIdle /\ SourceIdle /\ AlertsIdle

\* bookkeeping shared by the list-model operations
Called(name, index, role, res) ==
  /\ prevOp' = dataOp
  /\ dataOp' = name
  /\ qIndex' = index
  /\ qRole' = role
  /\ result' = res
  /\ crashed' = (res.kind = "abort")
  /\ UNCHANGED <<m_roles, classifyVars, sourceVars, alertVars>>

addDataItem ==
  /\ ~crashed
  /\ Len(m_dataItems) < MaxItems
  /\ \E fullPath \in DataPaths :
       /\ m_dataItems' = appendItem(m_dataItems, fullPath)
       /\ added' = Append(added, fullPath)
  /\ UNCHANGED cleared
  /\ Called("addDataItem", 0, None, Void)

clear ==
  /\ ~crashed
  /\ m_dataItems' = clearItems(m_dataItems)
  /\ added' = <<>>
  /\ cleared' = TRUE
  /\ Called("clear", 0, None, Void)

CallRowCount ==
  /\ ~crashed
  /\ UNCHANGED <<m_dataItems, added, cleared>>
  /\ Called("rowCount", 0, None, IntOf(rowCount(m_dataItems)))

CallData ==
  /\ ~crashed
  /\ UNCHANGED <<m_dataItems, added, cleared>>
  /\ \E row \in QueryIndexes, role \in QueryRoles :
       Called("data", row, role, data(m_dataItems, row, role))

CallRoleNames ==
  /\ ~crashed
  /\ UNCHANGED <<m_dataItems, added, cleared>>
  /\ Called("roleNames", 0, None, Res("roles", TRUE, <<>>, None, 0))

CallGetDataItemType ==
  /\ ~crashed
  /\ UNCHANGED <<m_dataItems, added, cleared>>
  /\ \E index \in QueryIndexes :
       \E res \in getDataItemType(m_dataItems, index) :
         Called("getDataItemType", index, None, res)

CallGetDataItemPath ==
  /\ ~crashed
  /\ UNCHANGED <<m_dataItems, added, cleared>>
  /\ \E index \in QueryIndexes :
       \E res \in getDataItemPath(m_dataItems, index) :
         Called("getDataItemPath", index, None, res)

NextData ==
  \/ addDataItem
  \/ clear
  \/ CallRowCount
  \/ CallData
  \/ CallRoleNames
  \/ CallGetDataItemType
  \/ CallGetDataItemPath

SpecData == InitData /\ [][NextData]_vars

ReadOps == {"rowCount", "data", "roleNames", "getDataItemType", "getDataItemPath"}

\* C3: after N addDataItem calls on an empty model rowCount() is N and
\* data(i, FullPathRole) is the path of the (i+1)-th call, for every i < N.
C3_AppendKeepsOrder ==
  /\ rowCount(m_dataItems) = Len(added)
  /\ \A i \in 0..(Len(added) - 1) :
       data(m_dataItems, i, FullPathRole) = QVariantOf(added[i + 1])

C3_Witness ==
  /\ dataOp = "addDataItem"
  /\ Len(added) >= 3
  /\ added[1] # added[2]
  /\ added[2] = added[3]

\* C4: clear() leaves rowCount() at 0 in every state, a rowCount() call right
\* after it returns 0, and the addDataItem calls after it count up from 0.
C4_ClearResets ==
  /\ dataOp = "clear" => rowCount(m_dataItems) = 0
  /\ (prevOp = "clear" /\ dataOp = "rowCount") => result = IntOf(0)
  /\ (prevOp = "clear" /\ dataOp = "addDataItem") => rowCount(m_dataItems) = 1
  /\ cleared => rowCount(m_dataItems) = Len(added)

C4_Witness ==
  /\ prevOp = "clear"
  /\ dataOp = "addDataItem"
  /\ cleared
  /\ Len(m_dataItems) = 1

\* C5: for every index < 0 or >= rowCount(), data() returns an invalid
\* QVariant, getDataItemPath returns an empty string and getDataItemType
\* returns Unknown; the call never fails and reads no stored item.
C5_OutOfRangeIsEmpty ==
  (qIndex < 0 \/ qIndex >= rowCount(m_dataItems)) =>
    /\ dataOp = "data" => result = InvalidQVariant
    /\ dataOp = "getDataItemPath" => result = QStringOf(<<>>)
    /\ dataOp = "getDataItemType" => result = DataTypeOf("Unknown")

\* C6: data() returns the item's fullPath under FullPathRole and the item's
\* fileName under FileNameRole for an in-range index, and an invalid QVariant
\* for any other role or any out-of-range index.
C6_DataByRole ==
  dataOp = "data" =>
    LET inRange == qIndex >= 0 /\ qIndex < Len(m_dataItems)
    IN /\ (inRange /\ qRole = FullPathRole) =>
            result = QVariantOf(m_dataItems[qIndex + 1].fullPath)
       /\ (inRange /\ qRole = FileNameRole) =>
            result = QVariantOf(m_dataItems[qIndex + 1].fileName)
       /\ (~inRange \/ qRole \notin {FullPathRole, FileNameRole}) =>
            result = InvalidQVariant

C6_Witness ==
  /\ dataOp = "data"
  /\ qRole = FileNameRole
  /\ qIndex >= 0 /\ qIndex < Len(m_dataItems)
  /\ result = QVariantOf(<<"a", ".", "s", "h", "p">>)
  /\ m_dataItems[qIndex + 1].fullPath # m_dataItems[qIndex + 1].fileName

\* C10: addDataItem appends exactly one entry and leaves every existing entry
\* and its position as it was, the read accessors change nothing, and entries
\* are removed only by clear(), which removes all of them.
C10_NoInPlaceMutation ==
  [][ /\ dataOp' = "addDataItem" =>
           /\ Len(m_dataItems') = Len(m_dataItems) + 1
           /\ SubSeq(m_dataItems', 1, Len(m_dataItems)) = m_dataItems
      /\ dataOp' \in ReadOps => m_dataItems' = m_dataItems
      /\ dataOp' = "clear" => m_dataItems' = <<>>
      /\ (\E i \in 1..Len(m_dataItems) :
             i > Len(m_dataItems') \/ m_dataItems'[i] # m_dataItems[i])
           => (dataOp' = "clear" /\ m_dataItems' = <<>>) ]_vars

C10_Witness ==
  /\ dataOp = "addDataItem"
  /\ Len(m_dataItems) >= 2
  /\ m_dataItems[1] # m_dataItems[2]

-----------------------------------------------------------------------------
(* AlertSource                                                              *)

NumSources == 3
NumDependents == 2
Sources == 1..NumSources
Dependents == 1..NumDependents

\* AlertSource::AlertSource: the body is empty, nothing is emitted
AlertSourceCtorSteps == <<>>

\* faulty variant of the destructor: the emit is missing
AlertSourceDtorWithoutEmit == <<"~QObject">>

\* AlertSource::~AlertSource: the body emits noLongerValid, then the QObject
\* base is destroyed (its connections go and the object ceases to exist)
AlertSourceDtorSteps == <<"emit noLongerValid", "~QObject">>

\* one step of a constructor or destructor on the state of one source
SourceStep(step, st) ==
  CASE step = "emit noLongerValid" ->
         [st EXCEPT !.emits = @ + 1,
                    !.delivered = @ \cup (IF st.alive THEN st.connected ELSE {}),
                    !.valid = @ /\ st.alive]
    [] step = "~QObject" ->
         [st EXCEPT !.alive = FALSE, !.connected = {}]

RECURSIVE RunSteps(_, _)
RunSteps(steps, st) ==
  IF steps = <<>> THEN st ELSE RunSteps(Tail(steps), SourceStep(Head(steps), st))

SourceRecord(s, alive) ==
  [alive |-> alive, emits |-> emitCount[s], connected |-> connectedDeps[s],
   delivered |-> delivered[s], valid |-> validAtEmit[s]]

StoreSource(s, st, state) ==
  /\ srcState' = [srcState EXCEPT ![s] = state]
  /\ emitCount' = [emitCount EXCEPT ![s] = st.emits]
  /\ connectedDeps' = [connectedDeps EXCEPT ![s] = st.connected]
  /\ delivered' = [delivered EXCEPT ![s] = st.delivered]
  /\ validAtEmit' = [validAtEmit EXCEPT ![s] = st.valid]
  /\ UNCHANGED <<classifyVars, dataVars, alertVars>>

InitSource ==
  /\ srcState = [s \in Sources |-> "unborn"]
  /\ emitCount = [s \in Sources |-> 0]
  /\ connectedDeps = [s \in Sources |-> {}]
  /\ delivered = [s \in Sources |-> {}]
  /\ validAtEmit = [s \in Sources |-> TRUE]
  /\ ClassifyIdle /\ DataIdle /\ AlertsIdle

ConstructAlertSource ==
  \E s \in Sources :
    /\ srcState[s] = "unborn"
    /\ StoreSource(s, RunSteps(AlertSourceCtorSteps, SourceRecord(s, TRUE)), "alive")

\* a dependent connects a slot to the source's noLongerValid
ConnectDependent ==
  \E s \in Sources, d \in Dependents :
    /\ srcState[s] = "alive"
    /\ d \notin connectedDeps[s]
    /\ StoreSource(s, [SourceRecord(s, TRUE) EXCEPT !.connected = @ \cup {d}], "alive")

DestroyAlertSource ==
  \E s \in Sources :
    /\ srcState[s] = "alive"
    /\ StoreSource(s, RunSteps(AlertSourceDtorSteps, SourceRecord(s, TRUE)), "destroyed")

NextSource ==
  \/ ConstructAlertSource
  \/ ConnectDependent
  \/ DestroyAlertSource

SpecSource == InitSource /\ [][NextSource]_vars

\* C9: destroying an AlertSource emits noLongerValid exactly once, while the
\* object is still alive, so that every connected dependent is notified; no
\* other step of the class emits it.
C9_NoLongerValidOnDestruction ==
  [][ \A s \in Sources :
        /\ (srcState[s] = "alive" /\ srcState'[s] = "destroyed") =>
             /\ emitCount'[s] = emitCount[s] + 1
             /\ validAtEmit'[s]
             /\ delivered'[s] = connectedDeps[s]
        /\ emitCount'[s] # emitCount[s] =>
             (srcState[s] = "alive" /\ srcState'[s] = "destroyed")
        /\ srcState'[s] = "destroyed" => emitCount'[s] = 1
        /\ srcState'[s] # "destroyed" => emitCount'[s] = 0 ]_vars

C9_Witness ==
  \E s \in Sources :
    /\ srcState[s] = "destroyed"
    /\ emitCount[s] = 1
    /\ delivered[s] = Dependents
    /\ validAtEmit[s]

-----------------------------------------------------------------------------
(* ViewedAlertsController over the AlertListModel singleton                 *)

MaxAlerts == 3

NullAlert == [null |-> TRUE, active |-> FALSE, viewed |-> FALSE]
AlertConditionData(a, v) == [null |-> FALSE, active |-> a, viewed |-> v]
AlertEntries == {NullAlert} \cup {AlertConditionData(a, v) : a \in BOOLEAN, v \in BOOLEAN}

\* faulty variant of the constructor: rowsRemoved is not connected
ConnectionsWithoutRowsRemoved(model) ==
  IF model THEN {"dataChanged", "rowsInserted"} ELSE {}

\* the connect() calls of the ViewedAlertsController constructor
ConstructorConnections(model) ==
  IF model THEN {"dataChanged", "rowsInserted", "rowsRemoved"} ELSE {}

\* the emit of the ViewedAlertsController constructor
ConstructorEmits(model) ==
  IF model THEN <<"unviewedCountChanged">> ELSE <<>>

\* a signal of the list, and the controller's signal when connected to it
\* (signal-to-signal connection, delivered directly on the interface thread)
EmitFromList(signal, conns) ==
  IF signal \in conns THEN <<signal, "unviewedCountChanged">> ELSE <<signal>>

\* faulty variant of the counting loop: viewed alerts are counted too
RECURSIVE CountLoopIgnoringViewed(_, _, _)
CountLoopIgnoringViewed(list, i, cnt) ==
  IF i >= Len(list) THEN cnt
  ELSE LET alert == list[i + 1]
       IN IF alert.null THEN CountLoopIgnoringViewed(list, i + 1, cnt)
          ELSE IF ~alert.active THEN CountLoopIgnoringViewed(list, i + 1, cnt)
          ELSE CountLoopIgnoringViewed(list, i + 1, cnt + 1)

\* the for loop of unviewedCount
RECURSIVE CountLoop(_, _, _)
CountLoop(list, i, cnt) ==
  IF i >= Len(list) THEN cnt
  ELSE LET alert == list[i + 1]
       IN IF alert.null THEN CountLoop(list, i + 1, cnt)
          ELSE IF ~alert.active THEN CountLoop(list, i + 1, cnt)
          ELSE IF alert.viewed THEN CountLoop(list, i + 1, cnt)
          ELSE CountLoop(list, i + 1, cnt + 1)

\* ViewedAlertsController::unviewedCount
unviewedCount(model, list) ==
  IF ~model THEN 0 ELSE CountLoop(list, 0, 0)

InitAlerts ==
  /\ modelPresent \in BOOLEAN
  /\ alerts = <<>>
  /\ ctrlConstructed = FALSE
  /\ connections = {}
  /\ emitted = <<>>
  /\ alertsOp = None
  /\ count = 0
  /\ ClassifyIdle /\ DataIdle /\ SourceIdle

AlertsFrame == UNCHANGED <<modelPresent, classifyVars, dataVars, sourceVars>>

ConstructController ==
  /\ ~ctrlConstructed
  /\ ctrlConstructed' = TRUE
  /\ connections' = ConstructorConnections(modelPresent)
  /\ emitted' = ConstructorEmits(modelPresent)
  /\ alertsOp' = "construct"
  /\ UNCHANGED <<alerts, count>>
  /\ AlertsFrame

\* ~ViewedAlertsController: the QObject base drops the connections
DestroyController ==
  /\ ctrlConstructed
  /\ ctrlConstructed' = FALSE
  /\ connections' = {}
  /\ emitted' = <<>>
  /\ alertsOp' = "destroy"
  /\ UNCHANGED <<alerts, count>>
  /\ AlertsFrame

InsertAlert ==
  /\ modelPresent
  /\ Len(alerts) < MaxAlerts
  /\ \E e \in AlertEntries : alerts' = Append(alerts, e)
  /\ emitted' = EmitFromList("rowsInserted", connections)
  /\ alertsOp' = "insertAlert"
  /\ UNCHANGED <<ctrlConstructed, connections, count>>
  /\ AlertsFrame

RemoveAlert ==
  /\ modelPresent
  /\ \E i \in 1..Len(alerts) :
       alerts' = SubSeq(alerts, 1, i - 1) \o SubSeq(alerts, i + 1, Len(alerts))
  /\ emitted' = EmitFromList("rowsRemoved", connections)
  /\ alertsOp' = "removeAlert"
  /\ UNCHANGED <<ctrlConstructed, connections, count>>
  /\ AlertsFrame

\* the change of one alert's field; the list reports it only when it changed
ChangeAlert(i, changed, name) ==
  /\ alerts' = [alerts EXCEPT ![i] = changed]
  /\ emitted' = IF changed = alerts[i] THEN <<>>
                ELSE EmitFromList("dataChanged", connections)
  /\ alertsOp' = name
  /\ UNCHANGED <<ctrlConstructed, connections, count>>
  /\ AlertsFrame

SetActive ==
  /\ modelPresent
  /\ \E i \in 1..Len(alerts), a \in BOOLEAN :
       /\ ~alerts[i].null
       /\ ChangeAlert(i, [alerts[i] EXCEPT !.active = a], "setActive")

SetViewed ==
  /\ modelPresent
  /\ \E i \in 1..Len(alerts), v \in BOOLEAN :
       /\ ~alerts[i].null
       /\ ChangeAlert(i, [alerts[i] EXCEPT !.viewed = v], "setViewed")

CallUnviewedCount ==
  /\ ctrlConstructed
  /\ count' = unviewedCount(modelPresent, alerts)
  /\ emitted' = <<>>
  /\ alertsOp' = "unviewedCount"
  /\ UNCHANGED <<alerts, ctrlConstructed, connections>>
  /\ AlertsFrame

NextAlerts ==
  \/ ConstructController
  \/ DestroyController
  \/ InsertAlert
  \/ RemoveAlert
  \/ SetActive
  \/ SetViewed
  \/ CallUnviewedCount

SpecAlerts == InitAlerts /\ [][NextAlerts]_vars

\* C1: unviewedCount() returns the number of alerts in the list, at the time of
\* the call, that are active and not viewed, whatever the list holds and
\* whatever inserts, removals and active/viewed changes came before.
C1_UnviewedCountIsExact ==
  alertsOp = "unviewedCount" =>
    count = Cardinality({i \in 1..Len(alerts) :
                           ~alerts[i].null /\ alerts[i].active /\ ~alerts[i].viewed})

C1_Witness ==
  /\ alertsOp = "unviewedCount"
  /\ count = 2
  /\ Len(alerts) = 3
  /\ \E i \in 1..Len(alerts) : ~alerts[i].null /\ alerts[i].active /\ alerts[i].viewed

\* C2: every insert, removal or data change of the alert list made while a
\* ViewedAlertsController exists makes the controller emit unviewedCountChanged.
C2_ChangeIsSignalled ==
  [][ (ctrlConstructed /\ alerts' # alerts) =>
        contains(emitted', "unviewedCountChanged") ]_vars

C2_Witness ==
  /\ ctrlConstructed
  /\ alertsOp = "removeAlert"
  /\ emitted = <<"rowsRemoved", "unviewedCountChanged">>

====
